---- MODULE Spec2Model ----
(***************************************************************************)
(* A model of db.c of yum-metadata-parser: the sqlite cache file of one    *)
(* metadata kind, the open / finalize protocol that decides whether the    *)
(* file is reusable (yum_db_open, dbinfo_status, yum_db_dbinfo_update),    *)
(* the schema creators with their triggers, the package writers, the       *)
(* dependency, file and changelog writers and the compacted file-list      *)
(* writer with its codec (package_files_to_hash).                          *)
(*                                                                         *)
(* Strings the code inspects character by character (paths, the packed     *)
(* filenames and filetypes) are sequences of one-character strings.        *)
(* Strings the code only compares or stores (checksums, pkgIds, type       *)
(* names, SQL object names) are TLA+ strings.                              *)
(*                                                                         *)
(* Storage model (sqlite): a statement the code checks the result of can   *)
(* fail; CREATE fails when the object exists or the file is no database;   *)
(* an INSERT can fail for reasons of the storage (full disk), which is an  *)
(* input of the action.  Each statement is its own transaction.            *)
(***************************************************************************)
EXTENDS Integers, Sequences, FiniteSets, Bags, TLC

VARIABLES
    file,       \* what is at the cache path: "absent", "unreadable", "directory", "garbage", "db"
    kind,       \* the metadata kind of this cache file: which create_tables the caller passes
    objects,    \* names of the tables, indexes and triggers in the database file
    db_info,    \* rows of table db_info in rowid order: [dbversion, checksum]
    packages,   \* rows of table packages: [pkgKey, pkgId]
    filelist,   \* rows of table filelist, a bag: [pkgKey, dirname, filenames, filetypes]
    filesTable, \* rows of table files, a bag: [name, type, pkgKey]
    deps,       \* rows of requires, provides, conflicts, obsoletes, a bag:
                \* [table, name, flags, epoch, version, release, pkgKey]
    changelog,  \* rows of table changelog, a bag: [pkgKey, author, date, changelog]
    stmt,       \* state of each prepared sqlite3_stmt of the caller: "ready" or "run"
    issued,     \* the pkgKey values insertions into packages of this file were given
    since,      \* those of issued given since the last deletion from packages
    db,         \* the caller's sqlite3 *: "NULL" or "conn"
    err,        \* the caller's GError after the last call: "none" or the error
    pkgKey,     \* p->pkgKey of each in-memory Package
    pfiles,     \* p->files of each in-memory Package
    rebuild,    \* progress of the run holding db: "none", "writing", "stamped"
    incomplete, \* TRUE when the last run on the file ended between open and its stamp
    written,    \* the checksum yum_db_dbinfo_update last wrote, "none" once the file is opened again
    last        \* what the last call was and what it returned

vars == <<file, kind, objects, db_info, packages, filelist, filesTable, deps, changelog,
          stmt, issued, since, db, err, pkgKey, pfiles, rebuild, incomplete, written,
          last>>

\* The tables that hold package data.
tables == <<packages, filelist, filesTable, deps, changelog>>

(***************************************************************************)
(* Bounds of the model.                                                    *)
(***************************************************************************)
MaxStamps == 2      \* yum_db_dbinfo_update is not called once db_info holds this many rows
MaxPackages == 2    \* rows of packages
MaxKey == 3         \* a package is not inserted once its pkgKey would be above this
MaxRows == 1        \* a row writer is not called once its table holds this many rows
MaxFiles == 2       \* entries of a drawn file list
MaxPathLen == 1     \* characters of a drawn path

(***************************************************************************)
(* Program constants and input domains.                                    *)
(***************************************************************************)
YUM_SQLITE_CACHE_DBVERSION == 10

\* The version a cache file written by the previous format carries.
OldVersion == YUM_SQLITE_CACHE_DBVERSION - 1

Checksums == {"c1", "c2"}
Pkgs == {"p1", "p2"}
Kinds == {"primary", "filelists", "other"}

\* db_info.dbversion is a TEXT column: "%d" on the way in, sqlite3_column_int on the way out.
IntToText(n) ==
    CASE n = YUM_SQLITE_CACHE_DBVERSION -> "10"
      [] n = OldVersion -> "9"
      [] OTHER -> "?"

sqlite3_column_int(t) ==
    CASE t = "10" -> 10
      [] t = "9" -> 9
      [] OTHER -> 0

(***************************************************************************)
(* Character strings.                                                      *)
(***************************************************************************)
Sep == "/"
PathChars == {"/", "a"}

RECURSIVE StringsOfLen(_)
StringsOfLen(n) ==
    IF n = 0 THEN {<<>>}
    ELSE {Append(s, c) : s \in StringsOfLen(n - 1), c \in PathChars}

Paths == UNION {StringsOfLen(n) : n \in 0..MaxPathLen}

\* g_path_get_dirname: everything before the last separator, without the
\* separators that end it; "." when there is no separator.
RECURSIVE StripSepsTo(_, _)
StripSepsTo(s, i) ==
    IF i > 1 /\ s[i] = Sep THEN StripSepsTo(s, i - 1) ELSE i

LastSep(s) ==
    LET at == {i \in 1..Len(s) : s[i] = Sep}
    IN  IF at = {} THEN 0 ELSE CHOOSE i \in at : \A j \in at : j <= i

g_path_get_dirname(s) ==
    IF LastSep(s) = 0 THEN <<".">>
    ELSE SubSeq(s, 1, StripSepsTo(s, LastSep(s)))

\* g_path_get_basename: the last component, without trailing separators;
\* "." for the empty string and "/" for a string of separators only.
LastNonSep(s) ==
    LET at == {i \in 1..Len(s) : s[i] # Sep}
    IN  IF at = {} THEN 0 ELSE CHOOSE i \in at : \A j \in at : j <= i

g_path_get_basename(s) ==
    IF s = <<>> THEN <<".">>
    ELSE IF LastNonSep(s) = 0 THEN <<Sep>>
    ELSE LET e == LastNonSep(s)
             before == {i \in 1..e : s[i] = Sep}
             b == IF before = {} THEN 0 ELSE CHOOSE i \in before : \A j \in before : j <= i
         IN  SubSeq(s, b + 1, e)

(***************************************************************************)
(* FileListCodec: package_files_to_hash.                                   *)
(***************************************************************************)
FileTypes == {"dir", "file", "ghost", "symlink"}

\* The code appended to the types buffer for a file's type: nothing for a
\* type that is none of "dir", "file", "ghost".
TypeCode(type) ==
    CASE type = "dir" -> <<"d">>
      [] type = "file" -> <<"f">>
      [] type = "ghost" -> <<"g">>
      [] OTHER -> <<>>

\* HashAdd with the separator written before every basename, the first too.
HashAdd_AlwaysSep(hash, f) ==
    LET dir == g_path_get_dirname(f.name)
        name == g_path_get_basename(f.name)
        enc == IF dir \in DOMAIN hash THEN hash[dir] ELSE [files |-> <<>>, types |-> <<>>]
        new == [files |-> Append(enc.files, Sep) \o name,
                types |-> enc.types \o TypeCode(f.type)]
    IN  [d \in (DOMAIN hash) \cup {dir} |-> IF d = dir THEN new ELSE hash[d]]

\* One iteration of the loop: look the dirname up, create its entry when it
\* is new, append the basename (after a separator when the buffer is not
\* empty) and the type code.
HashAdd(hash, f) ==
    LET dir == g_path_get_dirname(f.name)
        name == g_path_get_basename(f.name)
        enc == IF dir \in DOMAIN hash THEN hash[dir] ELSE [files |-> <<>>, types |-> <<>>]
        files1 == IF Len(enc.files) # 0 THEN Append(enc.files, Sep) ELSE enc.files
        new == [files |-> files1 \o name, types |-> enc.types \o TypeCode(f.type)]
    IN  [d \in (DOMAIN hash) \cup {dir} |-> IF d = dir THEN new ELSE hash[d]]

RECURSIVE HashFold(_, _)
HashFold(hash, files) ==
    IF files = <<>> THEN hash
    ELSE HashFold(HashAdd(hash, Head(files)), Tail(files))

EmptyHash == [d \in {} |-> [files |-> <<>>, types |-> <<>>]]

package_files_to_hash(files) == HashFold(EmptyHash, files)

(***************************************************************************)
(* The storage: sqlite3_open, unlink, CREATE statements.                   *)
(***************************************************************************)
\* sqlite3_open succeeds on a path that is free, and on a regular file it can
\* read: it does not look into the file, so a file that is no database opens.
sqlite3_open_ok(f) == f \in {"absent", "garbage", "db"}

\* What is at the path after a successful sqlite3_open: a free path now
\* holds an empty database.
sqlite3_open_file(f) == IF f = "absent" THEN "db" ELSE f

\* unlink that removes nothing.
unlink_Keep(f) == f

\* unlink(path): removes a file, fails on a directory.
unlink(f) == IF f = "directory" THEN f ELSE "absent"

\* CREATE statements that go on after one failed, reporting the first failure.
RECURSIVE ExecCreates_Continue(_, _, _)
ExecCreates_Continue(f, objs, names) ==
    IF names = <<>> THEN [objects |-> objs, err |-> "none"]
    ELSE LET rest == ExecCreates_Continue(f, IF f = "db" THEN objs \cup {Head(names)} ELSE objs,
                                          Tail(names))
         IN  IF f # "db" \/ Head(names) \in objs
             THEN [objects |-> rest.objects, err |-> Head(names)]
             ELSE rest

\* sqlite3_exec of CREATE statements for names, in order, stopping at the
\* first that fails: a statement fails when the file is no database or the
\* name is taken.  err is "none" or the name whose creation failed.
RECURSIVE ExecCreates(_, _, _)
ExecCreates(f, objs, names) ==
    IF names = <<>> THEN [objects |-> objs, err |-> "none"]
    ELSE IF f # "db" \/ Head(names) \in objs THEN [objects |-> objs, err |-> Head(names)]
    ELSE ExecCreates(f, objs \cup {Head(names)}, Tail(names))

\* yum_db_create_dbinfo_table that creates nothing and reports no error.
yum_db_create_dbinfo_table_Skip(f, objs) == [objects |-> objs, err |-> "none"]

yum_db_create_dbinfo_table(f, objs) == ExecCreates(f, objs, <<"db_info">>)

PrimaryObjects ==
    <<"packages", "packagename", "packageId", "files", "requires", "provides",
      "conflicts", "obsoletes", "providesname", "removals">>

FilelistObjects == <<"packages", "filelist", "keyfile", "pkgId", "remove_filelist">>

OtherObjects == <<"packages", "changelog", "keychange", "pkgId", "remove_changelogs">>

yum_db_create_primary_tables(f, objs) == ExecCreates(f, objs, PrimaryObjects)

yum_db_create_filelist_tables(f, objs) == ExecCreates(f, objs, FilelistObjects)

yum_db_create_other_tables(f, objs) == ExecCreates(f, objs, OtherObjects)

\* The CreateTablesFn the caller passes for the file's kind.
create_tables(k, f, objs) ==
    CASE k = "primary" -> yum_db_create_primary_tables(f, objs)
      [] k = "filelists" -> yum_db_create_filelist_tables(f, objs)
      [] k = "other" -> yum_db_create_other_tables(f, objs)

SeqRange(s) == {s[i] : i \in 1..Len(s)}

SchemaObjects(k) ==
    CASE k = "primary" -> SeqRange(PrimaryObjects)
      [] k = "filelists" -> SeqRange(FilelistObjects)
      [] k = "other" -> SeqRange(OtherObjects)

(***************************************************************************)
(* dbinfo_status: the freshness of an opened file against a checksum.      *)
(***************************************************************************)
\* dbinfo_status without the checksum branch: another checksum counts as
\* another version.
dbinfo_status_NoChecksumBranch(f, objs, info, checksum) ==
    IF f # "db" \/ "db_info" \notin objs THEN "ERROR"
    ELSE IF info = <<>> THEN "ERROR"
    ELSE IF sqlite3_column_int(Head(info).dbversion) # YUM_SQLITE_CACHE_DBVERSION
         THEN "VERSION_MISMATCH"
    ELSE IF checksum # Head(info).checksum THEN "VERSION_MISMATCH"
    ELSE "OK"

\* dbinfo_status that compares the checksum before the version.
dbinfo_status_ChecksumFirst(f, objs, info, checksum) ==
    IF f # "db" \/ "db_info" \notin objs THEN "ERROR"
    ELSE IF info = <<>> THEN "ERROR"
    ELSE IF checksum # Head(info).checksum THEN "CHECKSUM_MISMATCH"
    ELSE IF sqlite3_column_int(Head(info).dbversion) # YUM_SQLITE_CACHE_DBVERSION
         THEN "VERSION_MISMATCH"
    ELSE "OK"

\* dbinfo_status that reads the last row of db_info, not the first.
dbinfo_status_LastRow(f, objs, info, checksum) ==
    IF f # "db" \/ "db_info" \notin objs THEN "ERROR"
    ELSE IF info = <<>> THEN "ERROR"
    ELSE IF sqlite3_column_int(info[Len(info)].dbversion) # YUM_SQLITE_CACHE_DBVERSION
         THEN "VERSION_MISMATCH"
    ELSE IF checksum # info[Len(info)].checksum THEN "CHECKSUM_MISMATCH"
    ELSE "OK"

dbinfo_status(f, objs, info, checksum) ==
    IF f # "db" \/ "db_info" \notin objs THEN "ERROR"
    ELSE IF info = <<>> THEN "ERROR"
    ELSE IF sqlite3_column_int(Head(info).dbversion) # YUM_SQLITE_CACHE_DBVERSION
         THEN "VERSION_MISMATCH"
    ELSE IF checksum # Head(info).checksum THEN "CHECKSUM_MISMATCH"
    ELSE "OK"

\* The checksum-mismatch branch without its DELETE: the old stamp stays.
DeleteFromDbInfo_Keep(info) == info

\* "DELETE FROM db_info" of the checksum-mismatch branch of yum_db_open.
DeleteFromDbInfo(info) == <<>>

\* The row yum_db_dbinfo_update inserts.
StampRow(checksum) ==
    [dbversion |-> IntToText(YUM_SQLITE_CACHE_DBVERSION), checksum |-> checksum]

\* "INSERT INTO db_info" of yum_db_dbinfo_update.
InsertIntoDbInfo(info, checksum) == Append(info, StampRow(checksum))

(***************************************************************************)
(* Connections and statements.  sqlite3_open hands out a connection even   *)
(* when it fails; sqlite3_close releases it unless a statement prepared on *)
(* it has not been finalized (SQLITE_BUSY).                                *)
(***************************************************************************)
\* A close that releases nothing.
sqlite3_close_Leak(conns, stmts) == conns

\* The connections still open after sqlite3_close (db) of one of conns that
\* has stmts statements not finalized.
sqlite3_close(conns, stmts) == IF stmts = 0 THEN conns - 1 ELSE conns

\* The statements left after sqlite3_finalize (handle) of one of stmts.
sqlite3_finalize(stmts) == stmts - 1

\* The statements dbinfo_status leaves on the connection: the one it
\* prepared, none when the prepare failed, is finalized at cleanup.
dbinfo_status_statements(f, objs) ==
    LET handle == IF f # "db" \/ "db_info" \notin objs THEN 0 ELSE 1
    IN  IF handle # 0 THEN sqlite3_finalize(handle) ELSE 0

(***************************************************************************)

(* Calls and what they returned.                                           *)
(***************************************************************************)
NoCall ==
    [op |-> "none", checksum |-> "", existed |-> FALSE, status |-> "none",
     retried |-> FALSE, opens |-> 0, unlinked |-> FALSE, created |-> 0,
     ret |-> "NULL", err |-> "none", after_incomplete |-> FALSE, p |-> "",
     failed |-> {}, table |-> "", n |-> 0, key |-> 0, removed |-> 0,
     conns |-> 0]

NoKeys == [p \in Pkgs |-> 0]

(***************************************************************************)
(* yum_db_open (path, checksum, create_tables, err)                        *)
(***************************************************************************)
yum_db_open(checksum) ==
    /\ db = "NULL"
    /\ LET db_existed == file # "absent"
           rc1 == sqlite3_open_ok(file)
           status == IF rc1 /\ db_existed
                     THEN dbinfo_status(file, objects, db_info, checksum)
                     ELSE "none"
           \* the statements dbinfo_status left on the first connection
           stmts == IF rc1 /\ db_existed
                    THEN dbinfo_status_statements(file, objects)
                    ELSE 0
           call == [NoCall EXCEPT !.op = "open", !.checksum = checksum,
                                  !.existed = db_existed, !.status = status,
                                  !.opens = 1, !.conns = 1,
                                  !.after_incomplete = incomplete]
       IN  IF status = "OK"
           THEN \* everything is up-to-date: close and return NULL
                /\ last' = [call EXCEPT !.conns = sqlite3_close(1, stmts)]
                /\ db' = "NULL" /\ err' = "none" /\ rebuild' = "none"
                /\ UNCHANGED <<file, objects, db_info>>
           ELSE IF status = "CHECKSUM_MISMATCH"
           THEN /\ db_info' = DeleteFromDbInfo(db_info)
                /\ last' = [call EXCEPT !.ret = "conn"]
                /\ db' = "conn" /\ err' = "none" /\ rebuild' = "writing"
                /\ UNCHANGED <<file, objects>>
           ELSE LET \* VERSION_MISMATCH, ERROR: the connection is closed; a
                    \* failed open: the path is unlinked
                    file1 == IF rc1 THEN sqlite3_open_file(file) ELSE unlink(file)
                    reopen == ~rc1 \/ db_existed
                    rc2 == IF reopen THEN sqlite3_open_ok(file1) ELSE TRUE
                    file2 == IF reopen /\ rc2 THEN sqlite3_open_file(file1) ELSE file1
                    info == yum_db_create_dbinfo_table(file2, objects)
                    schema == create_tables(kind, file2, info.objects)
                    \* sqlite3_close (db) of both branches, then the
                    \* second sqlite3_open
                    conns1 == IF reopen THEN sqlite3_close(1, stmts) ELSE 1
                    conns2 == IF reopen THEN conns1 + 1 ELSE conns1
                    \* cleanup: if (*err && db) sqlite3_close (db)
                    closed == sqlite3_close(conns2, 0)
                    call2 == [call EXCEPT !.retried = reopen,
                                          !.opens = IF reopen THEN 2 ELSE 1,
                                          !.unlinked = ~rc1, !.conns = conns2]
                IN  /\ file' = file2
                    /\ UNCHANGED db_info
                    /\ IF ~rc2
                       THEN /\ err' = "open" /\ db' = "NULL" /\ rebuild' = "none"
                            /\ last' = [call2 EXCEPT !.err = "open", !.conns = closed]
                            /\ UNCHANGED objects
                       ELSE IF info.err # "none"
                       THEN /\ err' = info.err /\ db' = "NULL" /\ rebuild' = "none"
                            /\ last' = [call2 EXCEPT !.err = info.err, !.conns = closed]
                            /\ objects' = info.objects
                       ELSE IF schema.err # "none"
                       THEN /\ err' = schema.err /\ db' = "NULL" /\ rebuild' = "none"
                            /\ last' = [call2 EXCEPT !.err = schema.err, !.created = 1,
                                                 !.conns = closed]
                            /\ objects' = schema.objects
                       ELSE /\ err' = "none" /\ db' = "conn" /\ rebuild' = "writing"
                            /\ last' = [call2 EXCEPT !.ret = "conn", !.created = 1]
                            /\ objects' = schema.objects
    /\ incomplete' = FALSE
    /\ written' = "none"
    /\ UNCHANGED <<kind, packages, filelist, filesTable, deps, changelog, stmt, issued, since,
                   pkgKey, pfiles>>

(***************************************************************************)
(* yum_db_dbinfo_update (db, checksum, err): finalize.  ok is whether the  *)
(* INSERT succeeds.                                                        *)
(***************************************************************************)
yum_db_dbinfo_update(checksum, ok) ==
    /\ db = "conn"
    /\ Len(db_info) < MaxStamps
    /\ IF ok
       THEN /\ db_info' = InsertIntoDbInfo(db_info, checksum)
            /\ err' = "none"
            /\ rebuild' = "stamped"
            /\ written' = checksum
       ELSE /\ err' = "update"
            /\ UNCHANGED <<db_info, rebuild, written>>
    /\ last' = [NoCall EXCEPT !.op = "update", !.checksum = checksum,
                              !.err = IF ok THEN "none" ELSE "update"]
    /\ UNCHANGED <<file, kind, objects, packages, filelist, filesTable, deps, changelog, stmt,
                   issued, since, db, pkgKey, pfiles, incomplete>>

(***************************************************************************)
(* Prepared statements.  sqlite3_step runs a statement that is ready; a    *)
(* statement that ran must be reset before it runs again.  ok is whether   *)
(* the storage accepts the row.                                            *)
(***************************************************************************)
StmtNames ==
    {"package", "package_ids", "requires", "provides", "conflicts", "obsoletes",
     "file", "filelists", "changelog"}

AllReady == [h \in StmtNames |-> "ready"]

sqlite3_step(s, ok) == IF s = "ready" /\ ok THEN "SQLITE_DONE" ELSE "SQLITE_ERROR"

\* sqlite3_reset that leaves the statement as it is.
sqlite3_reset_Noop(s) == s

sqlite3_reset(s) == "ready"

(***************************************************************************)
(* yum_db_package_write and yum_db_package_ids_write (db, handle, p).  The *)
(* statement was prepared, so table packages exists; ok is whether the     *)
(* storage accepts the row.  pkgKey is the INTEGER PRIMARY KEY: the rowid. *)
(* Of the columns of a package only pkgId is kept.                         *)
(***************************************************************************)
Max(S) == CHOOSE x \in S : \A y \in S : y <= x

\* A rowid that is the largest in use, not one more.
NewRowid_NoIncrement(rows) == IF rows = {} THEN 1 ELSE Max({r.pkgKey : r \in rows})

\* The rowid sqlite gives a row inserted without one: one more than the largest.
NewRowid(rows) == IF rows = {} THEN 1 ELSE Max({r.pkgKey : r \in rows}) + 1

\* A read of the row id taken before the insert instead of after it.
sqlite3_last_insert_rowid_Stale(rowid) == rowid - 1

\* sqlite3_last_insert_rowid (db) right after the insert that was given rowid.
sqlite3_last_insert_rowid(rowid) == rowid

\* The common body of the two package writers, on statement h.
PackageInsert(op, h, p, ok) ==
    LET rc == sqlite3_step(stmt[h], ok)
        rowid == NewRowid(packages)
    IN  /\ stmt' = [stmt EXCEPT ![h] = sqlite3_reset("run")]
        /\ IF rc = "SQLITE_DONE"
           THEN /\ packages' = packages \cup {[pkgKey |-> rowid, pkgId |-> p]}
                /\ pkgKey' = [pkgKey EXCEPT ![p] = sqlite3_last_insert_rowid(rowid)]
                /\ issued' = issued \cup {rowid}
                /\ since' = since \cup {rowid}
           ELSE UNCHANGED <<packages, pkgKey, issued, since>>
        /\ last' = [NoCall EXCEPT !.op = op, !.p = p, !.key = rowid,
                                  !.err = IF rc = "SQLITE_DONE" THEN "none" ELSE "step"]

yum_db_package_write(p, ok) ==
    /\ db = "conn"
    /\ kind = "primary"
    /\ "packages" \in objects
    /\ Cardinality(packages) < MaxPackages
    /\ NewRowid(packages) <= MaxKey
    /\ PackageInsert("package_write", "package", p, ok)
    /\ UNCHANGED <<file, kind, objects, db_info, filelist, filesTable, deps, changelog, db, err,
                   pfiles, rebuild, incomplete, written>>

yum_db_package_ids_write(p, ok) ==
    /\ db = "conn"
    /\ "packages" \in objects
    /\ Cardinality(packages) < MaxPackages
    /\ NewRowid(packages) <= MaxKey
    /\ PackageInsert("package_ids_write", "package_ids", p, ok)
    /\ UNCHANGED <<file, kind, objects, db_info, filelist, filesTable, deps, changelog, db, err,
                   pfiles, rebuild, incomplete, written>>

(***************************************************************************)
(* Column affinity.  The dependent tables of the primary schema declare    *)
(* pkgKey TEXT, those of the other schemas pkgKey INTEGER, and the writers *)
(* bind an integer: a TEXT column stores its decimal text.  Comparing a    *)
(* TEXT column with an INTEGER column converts the text to a number.       *)
(***************************************************************************)
Digits == <<"0", "1", "2", "3", "4", "5", "6", "7", "8", "9">>

\* What a column of the declared type stores for the bound integer n.
Stored(type, n) == IF type = "TEXT" /\ n \in 0..9 THEN Digits[n + 1] ELSE n

\* The number a stored pkgKey of a column of the declared type compares as.
Numeric(type, v) ==
    IF type = "TEXT"
    THEN IF \E n \in 0..9 : Digits[n + 1] = v
         THEN CHOOSE n \in 0..9 : Digits[n + 1] = v
         ELSE -1
    ELSE v

(***************************************************************************)
(* yum_db_dependency_write (db, handle, pkgKey, dep) on the statement      *)
(* prepared for table; the caller passes p->pkgKey.                        *)
(***************************************************************************)
DepTables == {"requires", "provides", "conflicts", "obsoletes"}

Dependencies ==
    {[name |-> "n1", flags |-> "EQ", epoch |-> "0", version |-> "1", release |-> "1"]}

yum_db_dependency_write(table, p, dep, ok) ==
    /\ db = "conn"
    /\ table \in objects
    /\ BagCardinality(deps) < MaxRows
    /\ LET rc == sqlite3_step(stmt[table], ok)
           row == [table |-> table, name |-> dep.name, flags |-> dep.flags,
                   epoch |-> dep.epoch, version |-> dep.version,
                   release |-> dep.release, pkgKey |-> Stored("TEXT", pkgKey[p])]
       IN  /\ stmt' = [stmt EXCEPT ![table] = sqlite3_reset("run")]
           /\ deps' = IF rc = "SQLITE_DONE" THEN deps (+) SetToBag({row}) ELSE deps
           /\ last' = [NoCall EXCEPT !.op = "dependency_write", !.p = p, !.table = table,
                                     !.key = pkgKey[p],
                                     !.err = IF rc = "SQLITE_DONE" THEN "none" ELSE "step"]
    /\ UNCHANGED <<file, kind, objects, db_info, packages, filelist, filesTable, changelog,
                   issued, since, db, err, pkgKey, pfiles, rebuild, incomplete, written>>

(***************************************************************************)
(* yum_db_file_write (db, handle, pkgKey, file): file is entry n of        *)
(* p->files.  The statement is INSERT INTO files (name, type, pkgKey):     *)
(* parameter 1 is column name, parameter 2 is column type.                 *)
(***************************************************************************)
\* The characters of file->type, as sqlite3_bind_text reads them.
Chars(type) ==
    CASE type = "dir" -> <<"d", "i", "r">>
      [] type = "file" -> <<"f", "i", "l", "e">>
      [] type = "ghost" -> <<"g", "h", "o", "s", "t">>
      [] type = "symlink" -> <<"s", "y", "m", "l", "i", "n", "k">>

yum_db_file_write(p, n, ok) ==
    /\ db = "conn"
    /\ "files" \in objects
    /\ BagCardinality(filesTable) < MaxRows
    /\ n \in 1..Len(pfiles[p])
    /\ LET rc == sqlite3_step(stmt["file"], ok)
           bound == <<Chars(pfiles[p][n].type), pfiles[p][n].name, pkgKey[p]>>
           row == [name |-> bound[1], type |-> bound[2],
                   pkgKey |-> Stored("TEXT", bound[3])]
       IN  /\ stmt' = [stmt EXCEPT !["file"] = sqlite3_reset("run")]
           /\ filesTable' = IF rc = "SQLITE_DONE" THEN filesTable (+) SetToBag({row})
                            ELSE filesTable
           /\ last' = [NoCall EXCEPT !.op = "file_write", !.p = p, !.n = n,
                                     !.key = pkgKey[p],
                                     !.err = IF rc = "SQLITE_DONE" THEN "none" ELSE "step"]
    /\ UNCHANGED <<file, kind, objects, db_info, packages, filelist, deps, changelog,
                   issued, since, db, err, pkgKey, pfiles, rebuild, incomplete, written>>

(***************************************************************************)
(* yum_db_filelists_write (db, handle, p): one write_file per entry of the *)
(* hash.  failing is the set of dirnames whose row the storage refuses.    *)
(***************************************************************************)
\* The row write_file binds for one entry of the hash.
write_file(key, value, info_pkgKey) ==
    [pkgKey |-> Stored("INTEGER", info_pkgKey), dirname |-> key,
     filenames |-> value.files, filetypes |-> value.types]

\* g_hash_table_foreach: every entry once, each on the statement the
\* write_file before it has reset.
FilelistRows(hash, p_pkgKey, failing) ==
    {write_file(d, hash[d], p_pkgKey) : d \in (DOMAIN hash) \ failing}

yum_db_filelists_write(p, failing) ==
    /\ db = "conn"
    /\ "filelist" \in objects
    /\ BagCardinality(filelist) < MaxRows
    /\ LET hash == package_files_to_hash(pfiles[p])
       IN  /\ failing \subseteq DOMAIN hash
           /\ filelist' = IF stmt["filelists"] = "ready"
                          THEN filelist (+) SetToBag(FilelistRows(hash, pkgKey[p], failing))
                          ELSE filelist
           /\ stmt' = IF hash = EmptyHash THEN stmt
                      ELSE [stmt EXCEPT !["filelists"] = sqlite3_reset("run")]
    /\ last' = [NoCall EXCEPT !.op = "filelists_write", !.p = p, !.failed = failing]
    /\ UNCHANGED <<file, kind, objects, db_info, packages, filesTable, deps, changelog, issued,
                   since, db, err, pkgKey, pfiles, rebuild, incomplete, written>>

(***************************************************************************)
(* yum_db_changelog_write (db, handle, p): one INSERT per entry of         *)
(* p->changelogs, in order.  failing is the set of positions whose row the *)
(* storage refuses.                                                        *)
(***************************************************************************)
\* p->changelogs of the packages of a run.
RunChangelogs ==
    [p \in Pkgs |->
        IF p = "p1"
        THEN <<[author |-> "a1", date |-> "d1", changelog |-> "t1"],
               [author |-> "a2", date |-> "d2", changelog |-> "t2"]>>
        ELSE <<[author |-> "a1", date |-> "d1", changelog |-> "t1"]>>]

\* The for loop from entry i on, the statement being in state s.
RECURSIVE changelog_loop(_, _, _, _, _)
changelog_loop(entries, i, p_pkgKey, failing, s) ==
    IF i > Len(entries) THEN [rows |-> EmptyBag, stmt |-> s]
    ELSE LET rc == sqlite3_step(s, i \notin failing)
             row == [pkgKey |-> Stored("INTEGER", p_pkgKey), author |-> entries[i].author,
                     date |-> entries[i].date, changelog |-> entries[i].changelog]
             rest == changelog_loop(entries, i + 1, p_pkgKey, failing, sqlite3_reset("run"))
         IN  [rows |-> IF rc = "SQLITE_DONE" THEN SetToBag({row}) (+) rest.rows
                       ELSE rest.rows,
              stmt |-> rest.stmt]

yum_db_changelog_write(p, failing) ==
    /\ db = "conn"
    /\ "changelog" \in objects
    /\ BagCardinality(changelog) < MaxRows
    /\ failing \subseteq 1..Len(RunChangelogs[p])
    /\ LET done == changelog_loop(RunChangelogs[p], 1, pkgKey[p], failing, stmt["changelog"])
       IN  /\ changelog' = changelog (+) done.rows
           /\ stmt' = [stmt EXCEPT !["changelog"] = done.stmt]
    /\ last' = [NoCall EXCEPT !.op = "changelog_write", !.p = p, !.failed = failing,
                              !.key = pkgKey[p]]
    /\ UNCHANGED <<file, kind, objects, db_info, packages, filelist, filesTable, deps, issued,
                   since, db, err, pkgKey, pfiles, rebuild, incomplete, written>>

(***************************************************************************)
(* DELETE FROM packages WHERE pkgKey = k, by the holder of the handle, and *)
(* the AFTER DELETE triggers of the schema, in the same statement.         *)
(***************************************************************************)
\* DELETE FROM a table that empties it.
DeleteWhere_All(rows, type, k) == EmptyBag

\* DELETE FROM a table WHERE pkgKey = old.pkgKey: rows is the table as a
\* bag, type the declared type of its pkgKey, k the deleted packages.pkgKey.
DeleteWhere(rows, type, k) ==
    LET kept == {r \in BagToSet(rows) : Numeric(type, r.pkgKey) # k}
    IN  [r \in kept |-> rows[r]]

\* The trigger named n deletes from the table with rows, if n exists.
Trigger(n, rows, type, k) == IF n \in objects THEN DeleteWhere(rows, type, k) ELSE rows

DeletePackage(k) ==
    /\ db = "conn"
    /\ \E r \in packages : r.pkgKey = k
    /\ packages' = {r \in packages : r.pkgKey # k}
    /\ filesTable' = Trigger("removals", filesTable, "TEXT", k)
    /\ deps' = Trigger("removals", deps, "TEXT", k)
    /\ filelist' = Trigger("remove_filelist", filelist, "INTEGER", k)
    /\ changelog' = Trigger("remove_changelogs", changelog, "INTEGER", k)
    /\ since' = {}
    /\ last' = [NoCall EXCEPT !.op = "delete", !.key = k,
                              !.removed =
                                    BagCardinality(filesTable) - BagCardinality(filesTable')
                                    + BagCardinality(deps) - BagCardinality(deps')
                                    + BagCardinality(filelist) - BagCardinality(filelist')
                                    + BagCardinality(changelog) - BagCardinality(changelog')]
    /\ UNCHANGED <<file, kind, objects, db_info, stmt, issued, db, err, pkgKey, pfiles,
                   rebuild, incomplete, written>>

(***************************************************************************)
(* The process holding the handle ends, by returning or by dying: the      *)
(* connection and the in-memory packages are gone, the file stays.         *)
(***************************************************************************)
Exit ==
    /\ db = "conn"
    /\ db' = "NULL"
    /\ pkgKey' = NoKeys
    /\ rebuild' = "none"
    /\ incomplete' = (rebuild = "writing")
    /\ err' = "none"
    /\ last' = [NoCall EXCEPT !.op = "exit"]
    /\ UNCHANGED <<file, kind, objects, db_info, packages, filelist, filesTable, deps, changelog,
                   stmt, issued, since, pfiles, written>>

(***************************************************************************)
(* The cache protocol: any sequence of runs on one cache file.             *)
(***************************************************************************)
\* File lists of the packages of a run.
RunFiles ==
    [p \in Pkgs |->
        IF p = "p1"
        THEN <<[name |-> <<"/", "a">>, type |-> "file"], [name |-> <<"/">>, type |-> "dir"]>>
        ELSE <<[name |-> <<"a">>, type |-> "ghost"]>>]

\* A cache file the previous format version left: stamped, with its schema
\* and a package row.
OldFile(k) ==
    [file |-> "db", objects |-> {"db_info"} \cup SchemaObjects(k),
     db_info |-> <<[dbversion |-> IntToText(OldVersion), checksum |-> "c1"]>>,
     packages |-> {[pkgKey |-> 1, pkgId |-> "p1"]}]

\* A path that holds no database with tables: nothing, a file that cannot be
\* opened, a directory, a file that is no database, an empty database.
NoFile(f) == [file |-> f, objects |-> {}, db_info |-> <<>>, packages |-> {}]

\* A database that is no cache of this program: no db_info, and one object
\* under a name the schema of the kind uses.
ForeignFiles(k) ==
    {[file |-> "db", objects |-> {n}, db_info |-> <<>>, packages |-> {}] : n \in SchemaObjects(k)}

InitialFiles(k) ==
    {NoFile(f) : f \in {"absent", "unreadable", "directory", "garbage", "db"}}
        \cup {OldFile(k)} \cup ForeignFiles(k)

Init ==
    /\ kind \in Kinds
    /\ \E f \in InitialFiles(kind) :
          /\ file = f.file
          /\ objects = f.objects
          /\ db_info = f.db_info
          /\ packages = f.packages
          /\ issued = {r.pkgKey : r \in f.packages}
          /\ since = {r.pkgKey : r \in f.packages}
    /\ filelist = EmptyBag
    /\ filesTable = EmptyBag
    /\ deps = EmptyBag
    /\ changelog = EmptyBag
    /\ stmt = AllReady
    /\ db = "NULL"
    /\ err = "none"
    /\ pkgKey = NoKeys
    /\ pfiles = RunFiles
    /\ rebuild = "none"
    /\ incomplete = FALSE
    /\ written = "none"
    /\ last = NoCall

Next ==
    \/ \E c \in Checksums : yum_db_open(c)
    \/ \E c \in Checksums, ok \in BOOLEAN : yum_db_dbinfo_update(c, ok)
    \/ \E p \in Pkgs, ok \in BOOLEAN : yum_db_package_ids_write(p, ok)
    \/ \E p \in Pkgs : \E failing \in SUBSET DOMAIN package_files_to_hash(pfiles[p]) :
          yum_db_filelists_write(p, failing)
    \/ Exit

Spec == Init /\ [][Next]_vars

(***************************************************************************)
(* The codec at work: a file-lists cache under rebuild, both packages      *)
(* already in table packages, and any file list for the first of them.     *)
(***************************************************************************)
FileEntries == [name : Paths, type : FileTypes]

\* [("/a/b.txt", File), ("/a/c.txt", File), ("/a", Directory)]
ExampleFiles ==
    <<[name |-> <<"/", "a", "/", "b", ".", "t", "x", "t">>, type |-> "file"],
      [name |-> <<"/", "a", "/", "c", ".", "t", "x", "t">>, type |-> "file"],
      [name |-> <<"/", "a">>, type |-> "dir"]>>

InitCodec ==
    /\ kind = "filelists"
    /\ file = "db"
    /\ objects = {"db_info"} \cup SchemaObjects("filelists")
    /\ db_info = <<>>
    /\ packages = {[pkgKey |-> 1, pkgId |-> "p1"], [pkgKey |-> 2, pkgId |-> "p2"]}
    /\ issued = {1, 2}
    /\ since = {1, 2}
    /\ filelist = EmptyBag
    /\ filesTable = EmptyBag
    /\ deps = EmptyBag
    /\ changelog = EmptyBag
    /\ stmt = AllReady
    /\ db = "conn"
    /\ err = "none"
    /\ pkgKey = [p \in Pkgs |-> IF p = "p1" THEN 1 ELSE 2]
    /\ \/ \E n \in 0..MaxFiles : \E l \in [1..n -> FileEntries] :
             pfiles = [p \in Pkgs |-> IF p = "p1" THEN l ELSE <<>>]
       \/ pfiles = [p \in Pkgs |-> IF p = "p1" THEN ExampleFiles ELSE <<>>]
    /\ rebuild = "writing"
    /\ incomplete = FALSE
    /\ written = "none"
    /\ last = [NoCall EXCEPT !.op = "package_ids_write", !.p = "p2", !.key = 2]

\* The file list of a package is written once.
NextCodec ==
    /\ last.op # "filelists_write"
    /\ \E failing \in SUBSET DOMAIN package_files_to_hash(pfiles["p1"]) :
          yum_db_filelists_write("p1", failing)

SpecCodec == InitCodec /\ [][NextCodec]_vars

(***************************************************************************)
(* The package writers at work: a cache of any kind that yum_db_open has   *)
(* just created on a free path, and any sequence of package insertions and *)
(* package deletions on its handle.                                        *)
(***************************************************************************)
InitKeys ==
    /\ kind \in Kinds
    /\ file = "db"
    /\ objects = {"db_info"} \cup SchemaObjects(kind)
    /\ db_info = <<>>
    /\ packages = {}
    /\ issued = {}
    /\ since = {}
    /\ filelist = EmptyBag
    /\ filesTable = EmptyBag
    /\ deps = EmptyBag
    /\ changelog = EmptyBag
    /\ stmt = AllReady
    /\ db = "conn"
    /\ err = "none"
    /\ pkgKey = NoKeys
    /\ pfiles = RunFiles
    /\ rebuild = "writing"
    /\ incomplete = FALSE
    /\ written = "none"
    /\ last = [NoCall EXCEPT !.op = "open", !.checksum = "c1", !.opens = 1,
                             !.created = 1, !.ret = "conn", !.conns = 1]

NextKeys ==
    \/ \E p \in Pkgs, ok \in BOOLEAN : yum_db_package_write(p, ok)
    \/ \E p \in Pkgs, ok \in BOOLEAN : kind # "primary" /\ yum_db_package_ids_write(p, ok)
    \/ \E r \in packages : DeletePackage(r.pkgKey)

SpecKeys == InitKeys /\ [][NextKeys]_vars

(***************************************************************************)
(* The row writers at work: the same cache once both packages of the run   *)
(* are in table packages, and any sequence of dependency, file, file-list  *)
(* and changelog writes and of package deletions on its handle.            *)
(***************************************************************************)
InitRows ==
    /\ kind \in Kinds
    /\ file = "db"
    /\ objects = {"db_info"} \cup SchemaObjects(kind)
    /\ db_info = <<>>
    /\ packages = {[pkgKey |-> 1, pkgId |-> "p1"], [pkgKey |-> 2, pkgId |-> "p2"]}
    /\ issued = {1, 2}
    /\ since = {1, 2}
    /\ filelist = EmptyBag
    /\ filesTable = EmptyBag
    /\ deps = EmptyBag
    /\ changelog = EmptyBag
    /\ stmt = AllReady
    /\ db = "conn"
    /\ err = "none"
    /\ pkgKey = [p \in Pkgs |-> IF p = "p1" THEN 1 ELSE 2]
    /\ pfiles = RunFiles
    /\ rebuild = "writing"
    /\ incomplete = FALSE
    /\ written = "none"
    /\ last = [NoCall EXCEPT !.op = IF kind = "primary" THEN "package_write"
                                    ELSE "package_ids_write",
                             !.p = "p2", !.key = 2]

NextRows ==
    \/ \E table \in DepTables, p \in Pkgs, dep \in Dependencies, ok \in BOOLEAN :
          yum_db_dependency_write(table, p, dep, ok)
    \/ \E p \in Pkgs : \E n \in 1..Len(pfiles[p]) : \E ok \in BOOLEAN :
          yum_db_file_write(p, n, ok)
    \/ \E p \in Pkgs : \E failing \in SUBSET DOMAIN package_files_to_hash(pfiles[p]) :
          yum_db_filelists_write(p, failing)
    \/ \E p \in Pkgs : \E failing \in SUBSET (1..Len(RunChangelogs[p])) :
          yum_db_changelog_write(p, failing)
    \/ \E r \in packages : DeletePackage(r.pkgKey)

SpecRows == InitRows /\ [][NextRows]_vars

(***************************************************************************)
(* The write pipeline of a run: on the cache yum_db_open has just created, *)
(* each package goes through the package writer, which may fail, and then  *)
(* its dependent rows are written with its p->pkgKey, before the next      *)
(* package.  last.p is the package in hand.                                *)
(***************************************************************************)
NextPipeline ==
    \/ \E p \in Pkgs, ok \in BOOLEAN : yum_db_package_write(p, ok)
    \/ \E p \in Pkgs, ok \in BOOLEAN : kind # "primary" /\ yum_db_package_ids_write(p, ok)
    \/ \E table \in DepTables, dep \in Dependencies, ok \in BOOLEAN :
          last.p \in Pkgs /\ yum_db_dependency_write(table, last.p, dep, ok)
    \/ \E p \in Pkgs : \E n \in 1..Len(pfiles[p]) : \E ok \in BOOLEAN :
          last.p = p /\ yum_db_file_write(p, n, ok)
    \/ \E p \in Pkgs : \E failing \in SUBSET DOMAIN package_files_to_hash(pfiles[p]) :
          last.p = p /\ yum_db_filelists_write(p, failing)
    \/ \E p \in Pkgs : \E failing \in SUBSET (1..Len(RunChangelogs[p])) :
          last.p = p /\ yum_db_changelog_write(p, failing)

SpecPipeline == InitKeys /\ [][NextPipeline]_vars

(***************************************************************************)
(* What a reader of the cache does with a filelist row, and what the input *)
(* says, for stating the properties of the codec.                          *)
(***************************************************************************)
\* The pieces of s between separators: one more than the separators in s.
RECURSIVE SplitFrom(_, _, _)
SplitFrom(s, cur, acc) ==
    IF s = <<>> THEN Append(acc, cur)
    ELSE IF Head(s) = Sep THEN SplitFrom(Tail(s), <<>>, Append(acc, cur))
    ELSE SplitFrom(Tail(s), Append(cur, Head(s)), acc)

Split(s) == SplitFrom(s, <<>>, <<>>)

\* The names of a non-empty list with one separator between neighbours.
RECURSIVE Join(_)
Join(names) ==
    IF Len(names) = 1 THEN names[1]
    ELSE names[1] \o <<Sep>> \o Join(Tail(names))

\* The entries of files that lie in directory d, in the order of files.
EntriesIn(files, d) ==
    LET InDir(f) == g_path_get_dirname(f.name) = d
    IN  SelectSeq(files, InDir)

Basenames(entries) == [i \in 1..Len(entries) |-> g_path_get_basename(entries[i].name)]

Dirnames(files) == {g_path_get_dirname(files[i].name) : i \in 1..Len(files)}

\* The kind a type character stands for.
KindOfCode(c) ==
    CASE c = "d" -> "dir"
      [] c = "f" -> "file"
      [] c = "g" -> "ghost"
      [] OTHER -> "none"

BagOfSeq(s) == [x \in SeqRange(s) |-> Cardinality({i \in 1..Len(s) : s[i] = x})]

\* The package a filelist row was written for (SpecCodec: keys are distinct).
OwnerOf(r) == CHOOSE p \in Pkgs : pkgKey[p] = r.pkgKey

(***************************************************************************)
(* Properties.                                                            *)
(***************************************************************************)

\* C1: once yum_db_dbinfo_update has written the stamp (compiled version, c),
\* the next yum_db_open of the file with expected checksum c reports Current:
\* status OK, no handle, no error, nothing recreated and the file untouched,
\* whatever opens and updates came before.
C1_StampThenOpenIsCurrent ==
    [][(last'.op = "open" /\ written # "none" /\ last'.checksum = written)
        => /\ last'.status = "OK"
           /\ last'.ret = "NULL"
           /\ last'.err = "none"
           /\ last'.created = 0
           /\ UNCHANGED <<file, objects, db_info, packages, filelist>>]_vars

\* C2: yum_db_open of a file whose stored version differs from the compiled
\* one returns a writable handle and no error, on a store that holds only
\* the freshly created empty schema: no old stamp, tables or rows.
C2_VersionMismatchRecreates ==
    (last.op = "open" /\ last.status = "VERSION_MISMATCH")
        => /\ last.ret = "conn"
           /\ last.err = "none"
           /\ objects = {"db_info"} \cup SchemaObjects(kind)
           /\ db_info = <<>>
           /\ packages = {}
           /\ filelist = EmptyBag

\* C3: between a handle-returning yum_db_open and the stamp written through
\* that handle, and after the process died there, db_info holds no row of
\* the compiled version, so dbinfo_status is OK for no checksum; and the
\* open that follows such a death does not report Current.
C3_NoStampDuringRebuild ==
    /\ (rebuild = "writing" \/ incomplete)
          => /\ \A i \in 1..Len(db_info) :
                   sqlite3_column_int(db_info[i].dbversion) # YUM_SQLITE_CACHE_DBVERSION
             /\ \A c \in Checksums : dbinfo_status(file, objects, db_info, c) # "OK"
    /\ (last.op = "open" /\ last.after_incomplete) => last.status # "OK"

C3_Witness ==
    /\ last.op = "open"
    /\ last.after_incomplete
    /\ packages # {}
    /\ last.status # "OK"

\* C4: the yum_db_open that follows a rebuild that did not complete (the
\* process ended between the handle-returning open and a successful stamp)
\* returns a writable handle and no error.
C4_OpenAfterIncompleteRebuilds ==
    (last.op = "open" /\ last.after_incomplete)
        => /\ last.ret = "conn"
           /\ last.err = "none"

\* C5: yum_db_open of a file whose first stamp row carries the compiled
\* version and another checksum than the expected one returns a handle and
\* no error, leaves db_info empty, runs no schema creation and leaves the
\* schema objects and the package and filelist rows as they were.
C5_ChecksumMismatchClearsStampOnly ==
    [][(/\ last'.op = "open"
        /\ file = "db"
        /\ "db_info" \in objects
        /\ db_info # <<>>
        /\ Head(db_info).dbversion = IntToText(YUM_SQLITE_CACHE_DBVERSION)
        /\ Head(db_info).checksum # last'.checksum)
        => /\ last'.status = "CHECKSUM_MISMATCH"
           /\ last'.ret = "conn"
           /\ db' = "conn"
           /\ last'.err = "none"
           /\ db_info' = <<>>
           /\ last'.created = 0
           /\ ~last'.retried
           /\ UNCHANGED <<file, objects, packages, filelist>>]_vars

C5_Witness ==
    /\ last.op = "open"
    /\ last.status = "CHECKSUM_MISMATCH"
    /\ db = "conn"
    /\ db_info = <<>>
    /\ packages # {}
    /\ filelist # EmptyBag

\* C6: after a successful yum_db_dbinfo_update with checksum c, db_info
\* holds exactly one row, (compiled version, c), whatever it held before.
C6_UpdateLeavesOneStamp ==
    [][(last'.op = "update" /\ last'.err = "none")
        => db_info' = <<StampRow(last'.checksum)>>]_vars

\* C7: in every filelist row written, the number of '/'-separated pieces of
\* filenames equals the length of filetypes, and piece i and type i are the
\* basename and the kind of the i-th input entry of that directory.
C7_NamesAndTypesAligned ==
    \A r \in BagToSet(filelist) :
        LET entries == EntriesIn(pfiles[OwnerOf(r)], r.dirname)
            pieces == Split(r.filenames)
        IN  /\ Len(pieces) = Len(r.filetypes)
            /\ Len(pieces) = Len(entries)
            /\ \A i \in 1..Len(entries) :
                  /\ pieces[i] = g_path_get_basename(entries[i].name)
                  /\ KindOfCode(r.filetypes[i]) = entries[i].type

\* C8: round trip: for every filelist row written, the pieces of filenames
\* zipped with the kinds of the characters of filetypes are, as a multiset,
\* the (basename, kind) pairs of the input entries of that directory.
C8_RoundTrip ==
    \A r \in BagToSet(filelist) :
        LET entries == EntriesIn(pfiles[OwnerOf(r)], r.dirname)
            pieces == Split(r.filenames)
        IN  /\ Len(pieces) = Len(r.filetypes)
            /\ BagOfSeq([i \in 1..Len(pieces) |-> <<pieces[i], KindOfCode(r.filetypes[i])>>])
                 = BagOfSeq([i \in 1..Len(entries) |->
                                <<g_path_get_basename(entries[i].name), entries[i].type>>])

\* The rows the example's groups make: (/a, b.txt/c.txt, ff) and (/, a, d).
ExampleRows(key) ==
    {[pkgKey |-> key, dirname |-> <<"/", "a">>,
      filenames |-> <<"b", ".", "t", "x", "t", "/", "c", ".", "t", "x", "t">>,
      filetypes |-> <<"f", "f">>],
     [pkgKey |-> key, dirname |-> <<"/">>, filenames |-> <<"a">>, filetypes |-> <<"d">>]}

\* C9: yum_db_filelists_write adds one filelist row for each distinct
\* dirname of the package's file list whose insert does not fail, and no
\* other row; the row carries the package's pkgKey and, as filenames, the
\* basenames of that directory's entries in input order with one '/'
\* between neighbours and none before or after.  The example list yields
\* exactly the rows (/a, b.txt/c.txt, ff) and (/, a, d).
C9_OneRowPerDirnameInOrder ==
    [][last'.op = "filelists_write"
        => LET files == pfiles[last'.p]
               added == filelist' (-) filelist
               dirs == Dirnames(files) \ last'.failed
           IN  /\ BagCardinality(added) = Cardinality(dirs)
               /\ {<<r.pkgKey, r.dirname, r.filenames>> : r \in BagToSet(added)}
                    = {<<pkgKey[last'.p], d, Join(Basenames(EntriesIn(files, d)))>> : d \in dirs}
               /\ (files = ExampleFiles /\ last'.failed = {})
                     => BagToSet(added) = ExampleRows(pkgKey[last'.p])]_vars

C9_Witness ==
    /\ last.op = "filelists_write"
    /\ last.failed = {}
    /\ pfiles[last.p] = ExampleFiles
    /\ BagToSet(filelist) = ExampleRows(pkgKey[last.p])

\* C10: yum_db_open on a path where no file exists returns a writable
\* handle and no error; the file is then a database in which db_info exists
\* and is empty, the schema of the file's kind was created by one run of
\* create_tables, and there are no package or filelist rows.
C10_AbsentCreatesEmptyStore ==
    (last.op = "open" /\ ~last.existed)
        => /\ last.ret = "conn"
           /\ db = "conn"
           /\ last.err = "none"
           /\ err = "none"
           /\ file = "db"
           /\ "db_info" \in objects
           /\ db_info = <<>>
           /\ objects \ {"db_info"} = SchemaObjects(kind)
           /\ last.created = 1
           /\ packages = {}
           /\ filelist = EmptyBag

C10_Witness ==
    /\ last.op = "open"
    /\ ~last.existed
    /\ db = "conn"
    /\ rebuild = "writing"

\* The first row of db_info carries the compiled format version and checksum c.
FirstStampMatches(c) ==
    /\ file = "db"
    /\ "db_info" \in objects
    /\ db_info # <<>>
    /\ sqlite3_column_int(Head(db_info).dbversion) = YUM_SQLITE_CACHE_DBVERSION
    /\ Head(db_info).checksum = c

\* C11: when the stored version and checksum both match, yum_db_open returns
\* no handle and no error and leaves the stamp, the schema and every row as
\* they were; and yum_db_open returns no handle without an error in this
\* case only.
C11_CurrentOpenIsNoOp ==
    [][last'.op = "open" =>
         /\ FirstStampMatches(last'.checksum) =>
               /\ last'.ret = "NULL" /\ db' = "NULL"
               /\ last'.err = "none" /\ err' = "none"
               /\ UNCHANGED <<file, objects, db_info, packages, filelist>>
         /\ (last'.ret = "NULL" /\ last'.err = "none") =>
               FirstStampMatches(last'.checksum)]_vars

C11_Witness ==
    /\ last.op = "open" /\ last.status = "OK" /\ last.ret = "NULL" /\ last.err = "none"
    /\ Len(db_info) = 2
    /\ packages # {}

\* What yum_db_open leaves and returns on a free path: an empty database
\* with db_info and the schema of the kind, a handle, no error.
OpenedAsAbsent ==
    /\ last'.ret = "conn" /\ db' = "conn"
    /\ last'.err = "none" /\ err' = "none"
    /\ file' = "db"
    /\ objects' = {"db_info"} \cup SchemaObjects(kind)
    /\ db_info' = <<>>
    /\ packages' = {} /\ filelist' = EmptyBag

\* C12: when the first sqlite3_open fails, yum_db_open unlinks the path and
\* opens once more: if that fails too it returns no handle with an error and
\* creates no table, if it succeeds it goes on as on a free path.  On no
\* other path is the file unlinked or a failed open tried again, and
\* sqlite3_open is never called a third time.
C12_FailedOpenUnlinksAndRetriesOnce ==
    [][last'.op = "open" =>
         /\ last'.opens \in {1, 2}
         /\ file \in {"unreadable", "directory"} =>
               /\ last'.unlinked /\ last'.opens = 2
               /\ file = "unreadable" => OpenedAsAbsent
               /\ file = "directory" =>
                     /\ last'.ret = "NULL" /\ db' = "NULL"
                     /\ last'.err = "open" /\ err' = "open"
                     /\ last'.created = 0
                     /\ UNCHANGED <<file, objects, db_info>>
         /\ file \in {"absent", "garbage", "db"} =>
               /\ ~last'.unlinked
               /\ file' # "absent"
               /\ last'.err # "open"
               /\ last'.opens = 2 => last'.status \in {"VERSION_MISMATCH", "ERROR"}]_vars

C12_Witness ==
    /\ last.op = "open" /\ last.unlinked /\ last.opens = 2
    /\ last.ret = "conn" /\ db = "conn" /\ file = "db"

\* The CREATE statements of yum_db_open on a file of kind k, in order.
CreationOrder(k) ==
    <<"db_info">> \o (CASE k = "primary" -> PrimaryObjects
                        [] k = "filelists" -> FilelistObjects
                        [] k = "other" -> OtherObjects)

\* The names CreationOrder(k) holds before its first n.
CreatedBefore(k, n) ==
    LET order == CreationOrder(k)
        at == CHOOSE i \in 1..Len(order) :
                  order[i] = n /\ \A j \in 1..(i - 1) : order[j] # n
    IN  {order[j] : j \in 1..(at - 1)}

\* C19: when creating db_info or an object of the kind's schema fails during
\* yum_db_open, the open returns no handle with the error set, the
\* statements after the failed one are not executed (the schema creator does
\* not run after a failure on db_info), and no stamp row is written.
C19_FailedCreateAbortsBuild ==
    [][(last'.op = "open" /\ last'.err \notin {"none", "open"}) =>
         /\ last'.ret = "NULL" /\ db' = "NULL"
         /\ err' = last'.err
         /\ last'.err \in SeqRange(CreationOrder(kind))
         /\ file # "db" \/ last'.err \in objects
         /\ objects' = IF file' = "db"
                       THEN objects \cup CreatedBefore(kind, last'.err)
                       ELSE objects
         /\ last'.err = "db_info" => (last'.created = 0 /\ objects' = objects)
         /\ db_info' = db_info
         /\ UNCHANGED <<packages, filelist>>]_vars

C19_Witness ==
    /\ last.op = "open" /\ last.ret = "NULL" /\ last.created = 1
    /\ last.err = CreationOrder(kind)[4]
    /\ CreatedBefore(kind, last.err) \subseteq objects
    /\ CreationOrder(kind)[5] \notin objects

\* C20: the status yum_db_open gets from dbinfo_status depends on the first
\* row of db_info only, the version is compared before the checksum: OK iff
\* the first row has the compiled version and the given checksum,
\* VERSION_MISMATCH iff its version differs (whatever its checksum),
\* CHECKSUM_MISMATCH iff its version matches and its checksum differs, ERROR
\* iff db_info is missing or empty; yum_db_open takes ERROR and
\* VERSION_MISMATCH the same way.
C20_StatusFromFirstRow ==
    [][(last'.op = "open" /\ last'.status # "none") =>
         LET has == file = "db" /\ "db_info" \in objects /\ db_info # <<>>
             v == has /\ Head(db_info).dbversion = IntToText(YUM_SQLITE_CACHE_DBVERSION)
             c == has /\ Head(db_info).checksum = last'.checksum
         IN  /\ last'.status = "OK" <=> (has /\ v /\ c)
             /\ last'.status = "VERSION_MISMATCH" <=> (has /\ ~v)
             /\ last'.status = "CHECKSUM_MISMATCH" <=> (has /\ v /\ ~c)
             /\ last'.status = "ERROR" <=> ~has
             /\ last'.status \in {"VERSION_MISMATCH", "ERROR"} =>
                   /\ last'.opens = 2 /\ ~last'.unlinked
                   /\ UNCHANGED <<file, db_info, packages, filelist>>
                   /\ last'.ret = "conn" <=>
                         (file = "db" /\ objects \cap SeqRange(CreationOrder(kind)) = {})]_vars

C20_Witness ==
    /\ last.op = "open" /\ last.status = "VERSION_MISMATCH"
    /\ db_info # <<>>
    /\ Head(db_info).checksum = last.checksum
    /\ Head(db_info).dbversion # IntToText(YUM_SQLITE_CACHE_DBVERSION)

\* A call of one of the two package writers has just inserted its row.
PackageInserted ==
    /\ last'.op \in {"package_write", "package_ids_write"}
    /\ last'.err = "none"

\* C13: a pkgKey is never reused: whatever package insertions and package
\* deletions came before on the cache file, an insertion is given a pkgKey
\* that no insertion before it was given.
C13_KeyNeverReused ==
    [][PackageInserted =>
         /\ \E r \in packages' \ packages : r.pkgKey = last'.key
         /\ last'.key \notin issued]_vars

\* C14: successful package insertions with no deletion between them are
\* given strictly increasing pkgKey values: an insertion is given a pkgKey
\* above that of every insertion made since the last deletion.
C14_KeysIncrease ==
    [][PackageInserted =>
         /\ \E r \in packages' \ packages : r.pkgKey = last'.key
         /\ pkgKey'[last'.p] = last'.key
         /\ \A k \in since : last'.key > k]_vars

C14_Witness ==
    /\ last.op \in {"package_write", "package_ids_write"} /\ last.err = "none"
    /\ Cardinality(since) >= 2
    /\ last.key = Max(since)
    /\ issued # since

\* The declared type of column pkgKey of dependent table t.
KeyType(t) == IF t \in {"filelist", "changelog"} THEN "INTEGER" ELSE "TEXT"

\* The pkgKey a row of dependent table t carries, as a reader joining it
\* with packages sees it.
KeyOf(t, r) == Numeric(KeyType(t), r.pkgKey)

\* The dependent tables a cache of kind k has.
DependentTables(k) ==
    CASE k = "primary" -> {"files", "requires", "provides", "conflicts", "obsoletes"}
      [] k = "filelists" -> {"filelist"}
      [] k = "other" -> {"changelog"}

\* The rows of dependent table t, as a bag.
TableRows(t) ==
    CASE t = "files" -> filesTable
      [] t = "filelist" -> filelist
      [] t = "changelog" -> changelog
      [] OTHER -> LET own == {r \in BagToSet(deps) : r.table = t}
                  IN  [r \in own |-> deps[r]]

\* C15: deleting a package row removes every row that carries its pkgKey
\* from every dependent table of the cache's kind, removes no row that
\* carries another pkgKey, and removes no other package row.
C15_DeleteCascades ==
    [][last'.op = "delete" =>
         /\ packages' = {r \in packages : r.pkgKey # last'.key}
         /\ \A t \in DependentTables(kind) :
               /\ t \in objects
               /\ \A r \in BagToSet(TableRows(t)') : KeyOf(t, r) # last'.key
               /\ \A r \in BagToSet(TableRows(t)) :
                     KeyOf(t, r) # last'.key =>
                        /\ r \in BagToSet(TableRows(t)')
                        /\ TableRows(t)'[r] = TableRows(t)[r]
               /\ BagToSet(TableRows(t)') \subseteq BagToSet(TableRows(t))]_vars

\* A deletion that had rows to remove and rows to keep.
C15_Witness ==
    /\ last.op = "delete"
    /\ last.removed >= 1
    /\ \E t \in DependentTables(kind) : TableRows(t) # EmptyBag

\* C16: a call of yum_db_file_write whose row the storage accepts inserts
\* exactly one row into files (name, type, pkgKey): its name is the path of
\* the entry, its type the kind of the entry, its pkgKey the caller's.
C16_FileRowColumns ==
    [][(last'.op = "file_write" /\ last'.err = "none") =>
         LET entry == pfiles[last'.p][last'.n]
             added == filesTable' (-) filesTable
         IN  /\ BagCardinality(added) = 1
             /\ filesTable (+) added = filesTable'
             /\ \A r \in BagToSet(added) :
                   /\ r.name = entry.name
                   /\ r.type = Chars(entry.type)
                   /\ KeyOf("files", r) = last'.key]_vars

\* The rows yum_db_changelog_write binds for the entries of p at the
\* positions in keep, as a bag.
ChangelogRowsAt(p, key, keep) ==
    BagOfSeq([i \in 1..Cardinality(keep) |->
                 LET at == CHOOSE j \in keep : Cardinality({x \in keep : x < j}) = i - 1
                 IN  [pkgKey |-> key, author |-> RunChangelogs[p][at].author,
                      date |-> RunChangelogs[p][at].date,
                      changelog |-> RunChangelogs[p][at].changelog]])

\* C17: a row the storage refuses is dropped alone and the writer goes on.
\* A changelog write adds exactly the entries whose INSERT did not fail, each
\* once; a file-list write adds exactly one row for each group whose INSERT
\* did not fail; a dependency write adds its row or, refused, nothing.  Each
\* call returns, sets no error, and leaves its statement ready, so this
\* holds again for every later call on the same statement, whatever failed
\* before.
C17_FailedRowIsDroppedAlone ==
    [][/\ last'.op = "changelog_write" =>
             /\ changelog' = changelog (+)
                   ChangelogRowsAt(last'.p, last'.key,
                                   (1..Len(RunChangelogs[last'.p])) \ last'.failed)
             /\ stmt'["changelog"] = "ready"
             /\ UNCHANGED <<err, db, packages, pkgKey>>
       /\ last'.op = "filelists_write" =>
             LET hash == package_files_to_hash(pfiles[last'.p])
                 added == filelist' (-) filelist
             IN  /\ filelist (+) added = filelist'
                 /\ BagCardinality(added) = Cardinality((DOMAIN hash) \ last'.failed)
                 /\ {r.dirname : r \in BagToSet(added)} = (DOMAIN hash) \ last'.failed
                 /\ stmt'["filelists"] = "ready"
                 /\ UNCHANGED <<err, db, packages, pkgKey>>
       /\ last'.op = "dependency_write" =>
             /\ BagCardinality(deps') =
                   BagCardinality(deps) + (IF last'.err = "none" THEN 1 ELSE 0)
             /\ deps \sqsubseteq deps'
             /\ stmt'[last'.table] = "ready"
             /\ UNCHANGED <<err, db, packages, pkgKey>>]_vars

\* A changelog write of two entries whose first INSERT failed and whose
\* second was written.
C17_Witness ==
    /\ last.op = "changelog_write"
    /\ last.failed = {1}
    /\ Len(RunChangelogs[last.p]) = 2
    /\ BagCardinality(changelog) >= 1
    /\ \A r \in BagToSet(changelog) : r.author # RunChangelogs[last.p][1].author

\* C18: after a successful package insertion p->pkgKey is the key of the
\* row just inserted for p, and no other package that was written
\* successfully holds the same pkgKey.
C18_KeyCapturedAndDistinct ==
    [][PackageInserted =>
         /\ [pkgKey |-> pkgKey'[last'.p], pkgId |-> last'.p] \in packages' \ packages
         /\ Cardinality(packages' \ packages) = 1
         /\ \A q \in Pkgs \ {last'.p} :
               pkgKey'[q] # 0 => pkgKey'[q] # pkgKey'[last'.p]]_vars


\* The dependent tables of all three kinds.
AllDependentTables == {"files", "filelist", "changelog"} \cup DepTables

\* The rows a step adds to dependent table t.
AddedRows(t) ==
    {r \in BagToSet(TableRows(t)') :
        \/ r \notin BagToSet(TableRows(t))
        \/ TableRows(t)'[r] > TableRows(t)[r]}

\* The last call wrote dependent rows of package last.p.
DependentWrite(call) ==
    call.op \in {"dependency_write", "file_write", "filelists_write", "changelog_write"}

\* C21: in the write pipeline (each package through the package writer,
\* then its dependent rows with its pkgKey) every row a dependent writer
\* adds for package p carries p->pkgKey; that key is the key of p's own
\* package row when p was inserted, and is the key of no other package's
\* row in any case; a failed package insert leaves every pkgKey unchanged
\* and adds no package row, and a successful one gives p the key of its
\* new row, which no dependent row written earlier carries.
C21_DependentRowsCarryOwnersKey ==
    [][/\ DependentWrite(last') =>
             /\ UNCHANGED <<packages, pkgKey>>
             /\ \A t \in AllDependentTables : \A r \in AddedRows(t) :
                   /\ KeyOf(t, r) = pkgKey[last'.p]
                   /\ \A q \in packages : q.pkgKey = KeyOf(t, r) => q.pkgId = last'.p
                   /\ pkgKey[last'.p] # 0 =>
                         [pkgKey |-> KeyOf(t, r), pkgId |-> last'.p] \in packages
       /\ last'.op \in {"package_write", "package_ids_write"} =>
             /\ \A t \in AllDependentTables : TableRows(t)' = TableRows(t)
             /\ IF last'.err = "none"
                THEN /\ packages' =
                           packages \cup {[pkgKey |-> pkgKey'[last'.p], pkgId |-> last'.p]}
                     /\ \A q \in Pkgs \ {last'.p} : pkgKey'[q] = pkgKey[q]
                     /\ \A t \in AllDependentTables : \A r \in BagToSet(TableRows(t)) :
                           KeyOf(t, r) # pkgKey'[last'.p]
                ELSE UNCHANGED <<packages, pkgKey>>]_vars

\* Dependent rows were written for a package whose insert had failed, which
\* carry its unchanged pkgKey 0, and then for a package that was inserted,
\* which carry the key of that package's row.
C21_Witness ==
    /\ last.op = "dependency_write"
    /\ last.err = "none"
    /\ pkgKey[last.p] # 0
    /\ [pkgKey |-> pkgKey[last.p], pkgId |-> last.p] \in packages
    /\ \E r \in BagToSet(deps) : KeyOf(r.table, r) = pkgKey[last.p]
    /\ \E q \in Pkgs \ {last.p} :
          /\ pkgKey[q] = 0
          /\ \E r \in BagToSet(filesTable) : KeyOf("files", r) = 0


\* C22: yum_db_open leaks no connection: on every return path the
\* connections the call opened that are still open at return number
\* exactly 1 when a handle is returned, which is then the caller's, and
\* 0 when NULL is returned.
C22_OpenLeaksNoConnection ==
    [][last'.op = "open" =>
         /\ last'.opens \in 1..2
         /\ last'.conns = IF last'.ret = "conn" THEN 1 ELSE 0
         /\ (last'.ret = "conn") = (db' = "conn")]_vars

\* An open that failed, unlinked the path and failed again: two
\* connections were opened and NULL is returned with OpenError.
C22_Witness ==
    /\ last.op = "open"
    /\ last.opens = 2
    /\ last.unlinked
    /\ last.err = "open"
    /\ last.ret = "NULL"
    /\ last.conns = 0

====
